---- MODULE Spec2Model ----
(***************************************************************************)
(* Model of the file registry of k6's experimental fs module               *)
(* (js/modules/k6/experimental/fs/registry.go).                            *)
(*                                                                         *)
(* registry.open is split at the points where other goroutines can         *)
(* interleave: the sync.Map Load, the source's Open, io.ReadAll and the    *)
(* sync.Map Store.  The file source (afero.Fs) is the environment: its     *)
(* files may be changed from outside at any moment (Modify).               *)
(*                                                                         *)
(* A path is the sequence of its "/"-separated elements, so "a//b" is      *)
(* <<"a", "", "b">> and "a/./b" is <<"a", ".", "b">>.  A file's content    *)
(* is a sequence of bytes; the nil slice is <<>>.                          *)
(*                                                                         *)
(* The second part models the `k6 init` command (cmd/init.go): initCmd.run *)
(* split at its file system calls (Exists, Create, Write), with the file   *)
(* system open to changes from outside between them (CmdTouch).            *)
(***************************************************************************)
EXTENDS Naturals, Sequences, FiniteSets

\* ---------------------------------------------------------------- bounds
NumThreads == 2
MaxCalls == 3
MaxMods == 1
MaxLiveCalls == 2

Threads == 1..NumThreads

\* The file names callers pass to open (relative paths).
RawNames ==
    { <<"a", "b">>, <<"a", "", "b">>, <<"a", ".", "b">>,
      <<"b">>, <<"a", "..", "b">> }

\* The contents a file of the source can have.
Contents == { <<1, 2>>, <<3, 4>> }

\* ------------------------------------------------------- filepath.Clean
\* Lexical cleaning of a relative path, element by element: empty and "."
\* elements are dropped, an inner ".." removes the element before it, a
\* leading ".." is kept, and the empty result is ".".
RECURSIVE CleanElems(_, _)
CleanElems(rest, out) ==
    IF rest = <<>>
    THEN IF out = <<>> THEN <<".">> ELSE out
    ELSE LET s == Head(rest) IN
         IF s = "" \/ s = "."
         THEN CleanElems(Tail(rest), out)
         ELSE IF s = ".."
              THEN IF out # <<>> /\ out[Len(out)] # ".."
                   THEN CleanElems(Tail(rest), SubSeq(out, 1, Len(out) - 1))
                   ELSE CleanElems(Tail(rest), Append(out, ".."))
              ELSE CleanElems(Tail(rest), Append(out, s))

LexClean(name) == CleanElems(name, <<>>)

\* A variant of open that uses the file name as given.
NoClean(name) == name

\* filename = filepath.Clean(filename)
Clean(name) == LexClean(name)

\* The files of the source, and every name the registry could use as a key.
Paths == { LexClean(n) : n \in RawNames }
AllNames == RawNames \cup Paths

\* The states of one file of the source: readable with some content,
\* openable but failing while being read, or missing.
FileStates ==
    { [mode |-> m, data |-> c] : m \in {"ok", "ioerr"}, c \in Contents }
        \cup { [mode |-> "noent", data |-> <<>>] }

NoEntry == [ok |-> FALSE, data |-> <<>>]
NoCall == [ops |-> 0, afterFail |-> FALSE, srcOk |-> TRUE, snap |-> <<>>]
NoRet == [data |-> <<>>, err |-> "nil"]

VARIABLES
    entries,     \* fr.openedFiles: name -> [ok, data] as Load reports it
    fs,          \* the source: path -> state of the file
    handles,     \* files opened on the source and not closed
    pc,          \* per goroutine: position inside open
    arg,         \* per goroutine: the filename argument of the call
    filename,    \* per goroutine: the local filename after Clean
    data,        \* per goroutine: the local data returned by io.ReadAll
    ret,         \* per goroutine: the (data, err) pair open returned
    call,        \* per goroutine: what the current call did (history)
    opens,       \* per path: how often the source was asked to open it
    returned,    \* per path: the contents successful calls returned
    lastFailed,  \* per path: the call that completed last failed
    storedBy,    \* per path: the argument of the call that stored last
    stores,      \* per path: how often Store was called for it
    etype,       \* per name: the dynamic type of the value stored under it
    ncalls,      \* calls started
    nmods,       \* external modifications made
    cmdFs,          \* c.gs.FS: file name -> [exists, body]
    cmdPc,          \* position inside initCmd.run
    args,           \* the positional arguments of the command
    overwriteFiles, \* c.overwriteFiles, the --force flag
    target,         \* the local target
    fileExists,     \* the local fileExists
    runErr,         \* the local err
    result,         \* the error run returned
    logged,         \* what run wrote to c.gs.Logger
    stdout,         \* what run printed to stdout
    fd,             \* files created by run and not closed
    nruns,          \* runs started
    ntouch          \* outside changes to the command's file system

vars == <<entries, fs, handles, pc, arg, filename, data, ret, call,
          opens, returned, lastFailed, storedBy, stores, etype,
          ncalls, nmods, cmdFs, cmdPc, args, overwriteFiles, target,
          fileExists, runErr, result, logged, stdout, fd, nruns, ntouch>>

regVars == <<entries, fs, handles, pc, arg, filename, data, ret, call,
             opens, returned, lastFailed, storedBy, stores, etype,
             ncalls, nmods>>

cmdLocals == <<args, overwriteFiles, target, fileExists, runErr>>
cmdVars == <<cmdFs, cmdPc, cmdLocals, result, logged, stdout, fd, nruns,
             ntouch>>

\* const defaultNewScriptName, defaultNewScript
defaultNewScriptName == "script.js"
defaultNewScript == "import http from 'k6/http'; ..."

\* The files the command can be pointed at, the argument lists it accepts
\* (cobra.MaximumNArgs(1)), and what a file can be before the command runs.
Targets == {defaultNewScriptName, "test.js"}
ArgLists == {<<>>, <<"test.js">>}
Absent == [exists |-> FALSE, body |-> ""]
UserFile == [exists |-> TRUE, body |-> "user content"]

\* The command is not running and no file exists.
CmdQuiet ==
    /\ cmdFs = [x \in Targets |-> Absent]
    /\ cmdPc = "idle"
    /\ args = <<>>
    /\ overwriteFiles = FALSE
    /\ target = ""
    /\ fileExists = FALSE
    /\ runErr = "nil"
    /\ result = "nil"
    /\ logged = <<>>
    /\ stdout = <<>>
    /\ fd = 0
    /\ nruns = 0
    /\ ntouch = 0

locals == <<arg, filename, data>>
history == <<opens, returned, lastFailed, storedBy, stores>>

Init ==
    /\ entries = [n \in AllNames |-> NoEntry]
    /\ fs \in [Paths -> FileStates]
    /\ handles = 0
    /\ pc = [t \in Threads |-> "idle"]
    /\ arg = [t \in Threads |-> <<>>]
    /\ filename = [t \in Threads |-> <<>>]
    /\ data = [t \in Threads |-> <<>>]
    /\ ret = [t \in Threads |-> NoRet]
    /\ call = [t \in Threads |-> NoCall]
    /\ opens = [p \in Paths |-> 0]
    /\ returned = [p \in Paths |-> {}]
    /\ lastFailed = [p \in Paths |-> FALSE]
    /\ storedBy = [p \in Paths |-> <<>>]
    /\ stores = [p \in Paths |-> 0]
    /\ etype = [n \in AllNames |-> "none"]
    /\ ncalls = 0
    /\ nmods = 0
    /\ CmdQuiet

\* ------------------------------------------------------------ the source
\* The file a name denotes on the source: the source resolves the name.
FileOf(name) == fs[LexClean(name)]

\* fromFs.Open(filename): the error it reports, "nil" when it succeeds.
OpenErr(name) == IF FileOf(name).mode = "noent" THEN "OpenFailed" ELSE "nil"

\* io.ReadAll(f): the error it reports, "nil" when it succeeds.
ReadErr(name) == IF FileOf(name).mode = "ok" THEN "nil" ELSE "ReadFailed"

\* io.ReadAll(f): the bytes it returns; on failure, the bytes read so far.
ReadBytes(name) ==
    LET c == FileOf(name).data IN
    IF FileOf(name).mode = "ok" \/ c = <<>> THEN c
    ELSE SubSeq(c, 1, Len(c) - 1)

\* ---------------------------------------------------------- registry.open
\* A lookup that never finds the key.
LoadMiss(name) == NoEntry

\* fr.openedFiles.Load(filename)
Load(name) == entries[name]

\* A variant in which the bytes are converted to a string before they are
\* stored.
DynTypeString(d) == "string"

\* The dynamic type of data, the []byte io.ReadAll returned, inside the
\* interface value that Store is given.
DynType(d) == "[]byte"

\* A failure return that hands out the bytes read so far.
FailReturnData(d, e) == [data |-> d, err |-> e]

\* return nil, err
FailReturn(d, e) == [data |-> <<>>, err |-> e]

\* History kept when a call for path p completes.
Completed(p, r) ==
    /\ returned' = IF r.err = "nil"
                   THEN [returned EXCEPT ![p] = @ \cup {r.data}]
                   ELSE returned
    /\ lastFailed' = [lastFailed EXCEPT ![p] = (r.err # "nil")]

\* open is called: Clean, then Load; a hit returns the cached bytes, and
\* panics when the cached value is not a byte slice.
Call(t, name) ==
    /\ pc[t] = "idle"
    /\ ncalls < MaxCalls
    /\ ncalls' = ncalls + 1
    /\ LET f == Clean(name)
           e == Load(f)
       IN /\ arg' = [arg EXCEPT ![t] = name]
          /\ filename' = [filename EXCEPT ![t] = f]
          /\ call' = [call EXCEPT ![t] =
                        [NoCall EXCEPT !.afterFail = lastFailed[LexClean(name)]]]
          /\ IF e.ok /\ etype[f] = "[]byte"
             THEN /\ pc' = [pc EXCEPT ![t] = "done"]
                  /\ ret' = [ret EXCEPT ![t] = [data |-> e.data, err |-> "nil"]]
                  /\ Completed(LexClean(name), [data |-> e.data, err |-> "nil"])
             ELSE /\ pc' = [pc EXCEPT ![t] =
                              IF e.ok THEN "panic" ELSE "open"]
                  /\ ret' = ret
                  /\ UNCHANGED <<returned, lastFailed>>
    /\ UNCHANGED <<entries, etype, fs, handles, data, opens, stores, storedBy,
                   nmods>>
    /\ UNCHANGED cmdVars

\* A variant of Open taken under a registry-wide lock that another goroutine
\* holds while it is inside the source's Open or ReadAll.
FsOpenLocked(t) ==
    /\ pc[t] = "open"
    /\ \A u \in Threads \ {t} :
          pc[u] \notin {"read", "store"} /\ (pc[u] = "open" => u > t)
    /\ LET f == filename[t]
           p == LexClean(f)
           e == OpenErr(f)
       IN /\ opens' = [opens EXCEPT ![p] = @ + 1]
          /\ call' = [call EXCEPT ![t].ops = @ + 1,
                                  ![t].srcOk = (e = "nil")]
          /\ IF e # "nil"
             THEN /\ pc' = [pc EXCEPT ![t] = "done"]
                  /\ ret' = [ret EXCEPT ![t] = FailReturn(<<>>, e)]
                  /\ Completed(p, FailReturn(<<>>, e))
                  /\ handles' = handles
             ELSE /\ pc' = [pc EXCEPT ![t] = "read"]
                  /\ handles' = handles + 1
                  /\ UNCHANGED <<ret, returned, lastFailed>>
    /\ UNCHANGED <<entries, etype, fs, locals, stores, storedBy,
                   ncalls, nmods>>
    /\ UNCHANGED cmdVars

\* f, err := fromFs.Open(filename); if err != nil { return nil, err }
FsOpen(t) ==
    /\ pc[t] = "open"
    /\ LET f == filename[t]
           p == LexClean(f)
           e == OpenErr(f)
       IN /\ opens' = [opens EXCEPT ![p] = @ + 1]
          /\ call' = [call EXCEPT ![t].ops = @ + 1,
                                  ![t].srcOk = (e = "nil")]
          /\ IF e # "nil"
             THEN /\ pc' = [pc EXCEPT ![t] = "done"]
                  /\ ret' = [ret EXCEPT ![t] = FailReturn(<<>>, e)]
                  /\ Completed(p, FailReturn(<<>>, e))
                  /\ handles' = handles
             ELSE /\ pc' = [pc EXCEPT ![t] = "read"]
                  /\ handles' = handles + 1
                  /\ UNCHANGED <<ret, returned, lastFailed>>
    /\ UNCHANGED <<entries, etype, fs, locals, stores, storedBy,
                   ncalls, nmods>>
    /\ UNCHANGED cmdVars

\* A variant of ReadAll that stores what was read before it looks at err.
ReadAllStoreFirst(t) ==
    /\ pc[t] = "read"
    /\ LET f == filename[t]
           p == LexClean(f)
           e == ReadErr(f)
           d == ReadBytes(f)
       IN /\ data' = [data EXCEPT ![t] = d]
          /\ entries' = [entries EXCEPT ![f] = [ok |-> TRUE, data |-> d]]
          /\ etype' = [etype EXCEPT ![f] = "[]byte"]
          /\ call' = [call EXCEPT ![t].ops = @ + 1,
                                  ![t].srcOk = (@ /\ e = "nil"),
                                  ![t].snap = FileOf(f).data]
          /\ IF e # "nil"
             THEN /\ pc' = [pc EXCEPT ![t] = "done"]
                  /\ ret' = [ret EXCEPT ![t] = FailReturn(d, e)]
                  /\ Completed(p, FailReturn(d, e))
             ELSE /\ pc' = [pc EXCEPT ![t] = "store"]
                  /\ UNCHANGED <<ret, returned, lastFailed>>
    /\ UNCHANGED <<fs, handles, arg, filename, opens, stores, storedBy,
                   ncalls, nmods>>
    /\ UNCHANGED cmdVars

\* A variant of ReadAll that reads again, in place, for as long as the read
\* fails.
ReadAllRetry(t) ==
    /\ pc[t] = "read"
    /\ IF ReadErr(filename[t]) # "nil"
       THEN UNCHANGED vars
       ELSE /\ data' = [data EXCEPT ![t] = ReadBytes(filename[t])]
            /\ call' = [call EXCEPT ![t].ops = @ + 1,
                                    ![t].snap = FileOf(filename[t]).data]
            /\ pc' = [pc EXCEPT ![t] = "store"]
            /\ UNCHANGED <<entries, etype, fs, handles, arg, filename, ret,
                           history, ncalls, nmods, cmdVars>>

\* data, err := io.ReadAll(f); if err != nil { return nil, err }
\* The handle f is not closed on either path.
ReadAll(t) ==
    /\ pc[t] = "read"
    /\ LET f == filename[t]
           p == LexClean(f)
           e == ReadErr(f)
           d == ReadBytes(f)
       IN /\ data' = [data EXCEPT ![t] = d]
          /\ call' = [call EXCEPT ![t].ops = @ + 1,
                                  ![t].srcOk = (@ /\ e = "nil"),
                                  ![t].snap = FileOf(f).data]
          /\ IF e # "nil"
             THEN /\ pc' = [pc EXCEPT ![t] = "done"]
                  /\ ret' = [ret EXCEPT ![t] = FailReturn(d, e)]
                  /\ Completed(p, FailReturn(d, e))
             ELSE /\ pc' = [pc EXCEPT ![t] = "store"]
                  /\ UNCHANGED <<ret, returned, lastFailed>>
    /\ UNCHANGED <<entries, etype, fs, handles, arg, filename, opens, stores,
                   storedBy, ncalls, nmods>>
    /\ UNCHANGED cmdVars

\* A variant of the last step that returns the data without caching it.
StoreSkipped(t) ==
    /\ pc[t] = "store"
    /\ LET r == [data |-> data[t], err |-> "nil"]
       IN /\ ret' = [ret EXCEPT ![t] = r]
          /\ Completed(LexClean(filename[t]), r)
    /\ pc' = [pc EXCEPT ![t] = "done"]
    /\ UNCHANGED <<entries, etype, fs, handles, locals, call, opens, stores,
                   storedBy, ncalls, nmods>>
    /\ UNCHANGED cmdVars

\* fr.openedFiles.Store(filename, data); return data, nil
Store(t) ==
    /\ pc[t] = "store"
    /\ LET f == filename[t]
           p == LexClean(f)
           r == [data |-> data[t], err |-> "nil"]
       IN /\ entries' = [entries EXCEPT ![f] = [ok |-> TRUE, data |-> data[t]]]
          /\ etype' = [etype EXCEPT ![f] = DynType(data[t])]
          /\ ret' = [ret EXCEPT ![t] = r]
          /\ storedBy' = [storedBy EXCEPT ![p] = arg[t]]
          /\ stores' = [stores EXCEPT ![p] = @ + 1]
          /\ Completed(p, r)
    /\ pc' = [pc EXCEPT ![t] = "done"]
    /\ UNCHANGED <<fs, handles, locals, call, opens, ncalls, nmods>>
    /\ UNCHANGED cmdVars

\* The caller takes the result; the goroutine can call open again.
Return(t) ==
    /\ pc[t] = "done"
    /\ pc' = [pc EXCEPT ![t] = "idle"]
    /\ arg' = [arg EXCEPT ![t] = <<>>]
    /\ filename' = [filename EXCEPT ![t] = <<>>]
    /\ data' = [data EXCEPT ![t] = <<>>]
    /\ ret' = [ret EXCEPT ![t] = NoRet]
    /\ call' = [call EXCEPT ![t] = NoCall]
    /\ UNCHANGED <<entries, etype, fs, handles, history, ncalls, nmods>>
    /\ UNCHANGED cmdVars

\* The file is modified, removed, created or damaged from outside.
Modify(p, s) ==
    /\ nmods < MaxMods
    /\ fs[p] # s
    /\ fs' = [fs EXCEPT ![p] = s]
    /\ nmods' = nmods + 1
    /\ UNCHANGED <<entries, etype, handles, pc, locals, ret, call, history,
                   ncalls>>
    /\ UNCHANGED cmdVars

\* One step of goroutine t inside open.
Step(t) == FsOpen(t) \/ ReadAll(t) \/ Store(t)

Next ==
    \/ \E t \in Threads, n \in RawNames : Call(t, n)
    \/ \E t \in Threads : FsOpen(t)
    \/ \E t \in Threads : ReadAll(t)
    \/ \E t \in Threads : Store(t)
    \/ \E t \in Threads : Return(t)
    \/ \E p \in Paths, s \in FileStates : Modify(p, s)

Spec == Init /\ [][Next]_vars

\* Serial access: a call starts only when no other call is in progress.
NoCallInProgress == \A u \in Threads : pc[u] \in {"idle", "done"}

SerialCall(t, name) == NoCallInProgress /\ Call(t, name)

SerialNext ==
    \/ \E t \in Threads, n \in RawNames : SerialCall(t, n)
    \/ \E t \in Threads : FsOpen(t)
    \/ \E t \in Threads : ReadAll(t)
    \/ \E t \in Threads : Store(t)
    \/ \E t \in Threads : Return(t)
    \/ \E p \in Paths, s \in FileStates : Modify(p, s)

SerialSpec == Init /\ [][SerialNext]_vars

\* Fair scheduling: the source's Open and ReadAll return and a goroutine
\* that can take a step inside open eventually takes it.  Calls are counted
\* against a bound of their own.
LiveCall(t, name) == ncalls < MaxLiveCalls /\ Call(t, name)

LiveNext ==
    \/ \E t \in Threads, n \in RawNames : LiveCall(t, n)
    \/ \E t \in Threads : FsOpen(t)
    \/ \E t \in Threads : ReadAll(t)
    \/ \E t \in Threads : Store(t)
    \/ \E t \in Threads : Return(t)
    \/ \E p \in Paths, s \in FileStates : Modify(p, s)

LiveSpec ==
    Init /\ [][LiveNext]_vars /\ \A t \in Threads : WF_vars(Step(t))

\* -------------------------------------------------------------- k6 init
\* The registry is not in use and the source has no files.
RegQuiet ==
    /\ entries = [n \in AllNames |-> NoEntry]
    /\ etype = [n \in AllNames |-> "none"]
    /\ fs = [p \in Paths |-> [mode |-> "noent", data |-> <<>>]]
    /\ handles = 0
    /\ pc = [t \in Threads |-> "idle"]
    /\ arg = [t \in Threads |-> <<>>]
    /\ filename = [t \in Threads |-> <<>>]
    /\ data = [t \in Threads |-> <<>>]
    /\ ret = [t \in Threads |-> NoRet]
    /\ call = [t \in Threads |-> NoCall]
    /\ opens = [p \in Paths |-> 0]
    /\ returned = [p \in Paths |-> {}]
    /\ lastFailed = [p \in Paths |-> FALSE]
    /\ storedBy = [p \in Paths |-> <<>>]
    /\ stores = [p \in Paths |-> 0]
    /\ ncalls = 0
    /\ nmods = 0

CmdInit ==
    /\ RegQuiet
    /\ cmdFs \in [Targets -> {Absent, UserFile}]
    /\ cmdPc = "idle"
    /\ args = <<>>
    /\ overwriteFiles = FALSE
    /\ target = ""
    /\ fileExists = FALSE
    /\ runErr = "nil"
    /\ result = "nil"
    /\ logged = <<>>
    /\ stdout = <<>>
    /\ fd = 0
    /\ nruns = 0
    /\ ntouch = 0

\* fsext.Exists(c.gs.FS, target): (true, nil) for a file that is there,
\* (false, nil) for one that is not, (false, err) when the check fails.
ExistsResults(name) ==
    { [exists |-> cmdFs[name].exists, err |-> "nil"],
      [exists |-> FALSE, err |-> "StatFailed"] }

\* c.gs.Logger.Errorf("%s already exists", target)
AlreadyExists(name) == <<"error", name, " already exists">>

\* The two lines printed after the script was written
\* (c.gs.BinaryName is "k6").
Initialized(name) ==
    << <<"Initialized a new k6 test script in ", name, ".">>,
       <<"You can now execute it by running ", "k6", " run ", name, ".">> >>

\* A test that refuses only when the force flag is set.
RefuseInverted(exists, force) == exists /\ force

\* if fileExists && !c.overwriteFiles
Refuse(exists, force) == exists /\ ~force

\* A return that reports the refusal as an error.
RefusalIsError(e) == "already exists"

\* return err, after the "already exists" message
RefusalReturn(e) == e

\* The command is started: flags and arguments are parsed, target is chosen.
CmdStart(a, force) ==
    /\ cmdPc = "idle"
    /\ nruns < MaxCalls
    /\ nruns' = nruns + 1
    /\ args' = a
    /\ overwriteFiles' = force
    /\ target' = IF Len(a) > 0 THEN a[1] ELSE defaultNewScriptName
    /\ cmdPc' = "exists"
    /\ UNCHANGED <<cmdFs, fileExists, runErr, result, logged, stdout, fd,
                   ntouch, regVars>>

\* fileExists, err := fsext.Exists(...); the two early returns.
CmdExists(r) ==
    /\ cmdPc = "exists"
    /\ r \in ExistsResults(target)
    /\ fileExists' = r.exists
    /\ runErr' = r.err
    /\ IF r.err # "nil"
       THEN /\ result' = r.err
            /\ cmdPc' = "done"
            /\ logged' = logged
       ELSE IF Refuse(r.exists, overwriteFiles)
            THEN /\ logged' = Append(logged, AlreadyExists(target))
                 /\ result' = RefusalReturn(r.err)
                 /\ cmdPc' = "done"
            ELSE /\ cmdPc' = "create"
                 /\ UNCHANGED <<result, logged>>
    /\ UNCHANGED <<cmdFs, args, overwriteFiles, target, stdout, fd, nruns,
                   ntouch, regVars>>

\* fd, err := c.gs.FS.Create(target); defer fd.Close()
CmdCreate(ok) ==
    /\ cmdPc = "create"
    /\ IF ok
       THEN /\ cmdFs' = [cmdFs EXCEPT ![target] = [exists |-> TRUE, body |-> ""]]
            /\ fd' = fd + 1
            /\ cmdPc' = "write"
            /\ UNCHANGED <<runErr, result>>
       ELSE /\ runErr' = "CreateFailed"
            /\ result' = "CreateFailed"
            /\ cmdPc' = "done"
            /\ UNCHANGED <<cmdFs, fd>>
    /\ UNCHANGED <<args, overwriteFiles, target, fileExists, logged, stdout,
                   nruns, ntouch, regVars>>

\* _, err = fd.Write([]byte(defaultNewScript)); the two messages; return;
\* the deferred fd.Close() runs on both returns.
CmdWrite(ok) ==
    /\ cmdPc = "write"
    /\ IF ok
       THEN /\ cmdFs' = [cmdFs EXCEPT ![target] =
                           [exists |-> TRUE, body |-> defaultNewScript]]
            /\ stdout' = stdout \o Initialized(target)
            /\ runErr' = "nil"
            /\ result' = "nil"
       ELSE /\ runErr' = "WriteFailed"
            /\ result' = "WriteFailed"
            /\ UNCHANGED <<cmdFs, stdout>>
    /\ fd' = fd - 1
    /\ cmdPc' = "done"
    /\ UNCHANGED <<args, overwriteFiles, target, fileExists, logged, nruns,
                   ntouch, regVars>>

\* The process ends; the command can be run again.
CmdExit ==
    /\ cmdPc = "done"
    /\ cmdPc' = "idle"
    /\ args' = <<>>
    /\ overwriteFiles' = FALSE
    /\ target' = ""
    /\ fileExists' = FALSE
    /\ runErr' = "nil"
    /\ result' = "nil"
    /\ logged' = <<>>
    /\ stdout' = <<>>
    /\ UNCHANGED <<cmdFs, fd, nruns, ntouch, regVars>>

\* Somebody else creates, rewrites or removes a file.
CmdTouch(x, f) ==
    /\ ntouch < MaxMods
    /\ cmdFs[x] # f
    /\ cmdFs' = [cmdFs EXCEPT ![x] = f]
    /\ ntouch' = ntouch + 1
    /\ UNCHANGED <<cmdPc, cmdLocals, result, logged, stdout, fd, nruns,
                   regVars>>

CmdNext ==
    \/ \E a \in ArgLists, force \in BOOLEAN : CmdStart(a, force)
    \/ \E r \in [exists : BOOLEAN, err : {"nil", "StatFailed"}] : CmdExists(r)
    \/ \E ok \in BOOLEAN : CmdCreate(ok)
    \/ \E ok \in BOOLEAN : CmdWrite(ok)
    \/ CmdExit
    \/ \E x \in Targets, f \in {Absent, UserFile} : CmdTouch(x, f)

CmdSpec == CmdInit /\ [][CmdNext]_vars

\* ------------------------------------------------------------ properties

\* C1: once a name is a key of entries it stays a key and the value stored
\* under it never changes.
WriteOnce ==
    [][\A n \in AllNames : entries[n].ok => entries'[n] = entries[n]]_vars

\* C2: all successful calls for one path return the same content, whatever
\* the interleaving and whatever happens to the file meanwhile.
ConsistentSnapshot == \A p \in Paths : Cardinality(returned[p]) <= 1

\* C3 (as stated): under serial access the source is asked for a path at
\* most once and the calls for it return one and the same content.
SerialQueriedOnce ==
    \A p \in Paths : opens[p] <= 1 /\ Cardinality(returned[p]) <= 1

\* C3 (amended): under serial access all successful calls for a path return
\* the same content, and once a call for the path has succeeded the source
\* is never asked for that path again.
SerialReadOnce ==
    /\ [](\A p \in Paths : Cardinality(returned[p]) <= 1)
    /\ [][\A p \in Paths : returned[p] # {} => opens'[p] = opens[p]]_vars

\* C3 witness: a call failed, a later one read the file, a third one was
\* served from the cache.
SerialReadOnceWitness ==
    \E t \in Threads :
        /\ pc[t] = "done" /\ call[t].ops = 0 /\ ret[t].err = "nil"
        /\ opens[filename[t]] = 2
        /\ returned[filename[t]] = {ret[t].data}

\* C4: a call that starts after some call for the same path has returned
\* successfully returns the stored content and no error, in that one step,
\* without opening or reading anything on the source.
CacheHit ==
    [][\A t \in Threads :
         (pc[t] = "idle" /\ pc'[t] # "idle"
            /\ returned[LexClean(arg'[t])] # {})
         => /\ pc'[t] = "done"
            /\ ret'[t] = [data |-> entries[LexClean(arg'[t])].data,
                          err |-> "nil"]
            /\ ret'[t].data \in returned[LexClean(arg'[t])]
            /\ call'[t].ops = 0
            /\ opens' = opens
            /\ handles' = handles]_vars

\* C4 witness: a call was served from the cache although the source would
\* now fail to open the file.
CacheHitWitness ==
    \E t \in Threads :
        /\ pc[t] = "done" /\ call[t].ops = 0
        /\ ret[t].err = "nil" /\ ret[t].data \in Contents
        /\ OpenErr(filename[t]) = "OpenFailed"

\* C5: goroutines that raced on a miss of the same path all got the same
\* content, and the registry holds exactly one entry for the path.
ConcurrentSameContent ==
    \A t, u \in Threads :
        (/\ pc[t] = "done" /\ pc[u] = "done"
         /\ filename[t] = filename[u]
         /\ call[t].ops > 0 /\ call[u].ops > 0
         /\ ret[t].err = "nil" /\ ret[u].err = "nil")
        => /\ ret[t].data = ret[u].data
           /\ Cardinality({n \in AllNames :
                  entries[n].ok /\ LexClean(n) = LexClean(filename[t])}) = 1

\* C6: a call that fails returns nil content and the error of the source,
\* and no step of a call that has not reached Store changes entries.
FailedOpenNoTrace ==
    [][\A t \in Threads :
         /\ (pc'[t] # pc[t] /\ pc[t] \in {"idle", "open", "read"})
            => entries' = entries
         /\ (pc[t] # "done" /\ pc'[t] = "done" /\ ret'[t].err # "nil")
            => /\ pc[t] \in {"open", "read"}
               /\ ret'[t].data = <<>>
               /\ ret'[t].err = IF pc[t] = "open"
                                THEN OpenErr(filename[t])
                                ELSE ReadErr(filename[t])]_vars

\* C6 witness: one call failed in Open, another failed in ReadAll after
\* some bytes had been read, and nothing is cached for the latter.
FailedOpenWitness ==
    \E t, u \in Threads :
        /\ pc[t] = "done" /\ ret[t].err = "OpenFailed"
        /\ pc[u] = "done" /\ ret[u].err = "ReadFailed" /\ data[u] # <<>>
        /\ ~entries[filename[u]].ok

PathNormalization ==
    /\ [](\A n \in AllNames : entries[n].ok => LexClean(n) = n)
    /\ [](\A t \in Threads : pc[t] # "idle" => filename[t] = LexClean(arg[t]))
    /\ [][\A t \in Threads :
            (pc[t] = "idle" /\ pc'[t] # "idle"
               /\ entries[LexClean(arg'[t])].ok)
            => /\ pc'[t] = "done"
               /\ ret'[t] = [data |-> entries[LexClean(arg'[t])].data,
                             err |-> "nil"]
               /\ opens' = opens
               /\ handles' = handles]_vars

\* C8 witness: a name that is not clean was served from the entry another,
\* different name had stored.
PathNormalizationWitness ==
    \E t \in Threads :
        /\ pc[t] = "done" /\ call[t].ops = 0 /\ ret[t].err = "nil"
        /\ arg[t] # filename[t]
        /\ storedBy[filename[t]] \notin {<<>>, arg[t], filename[t]}
        /\ Cardinality({n \in AllNames : entries[n].ok
                          /\ LexClean(n) = filename[t]}) = 1

\* C10: a call for one path is never blocked by a call for another path that
\* is inside the source's Open or ReadAll: its next step is enabled in every
\* such state, so it runs to completion while the other takes no step.
Independence ==
    \A t, u \in Threads :
        (/\ t # u
         /\ pc[t] \in {"open", "read"}
         /\ pc[u] \in {"open", "read", "store"}
         /\ filename[t] # filename[u])
        => ENABLED Step(u)

\* C10 witness: a call for one path has gone through Open, ReadAll and Store
\* while the only other call, for another path, is still inside the source.
IndependenceWitness ==
    \E t, u \in Threads :
        /\ pc[t] \in {"open", "read"}
        /\ pc[u] = "done" /\ call[u].ops = 2 /\ ret[u].err = "nil"
        /\ filename[t] # filename[u]
        /\ ncalls = 2

\* C9: when no call is in progress, no file opened by open is left open.
HandlesReleased == NoCallInProgress => handles = 0

\* C11: under serial access, once a call for a path has returned content c,
\* the value stored for the path is c and stays c, and every later successful
\* call for the path returns c, whatever happens to the file outside.
CacheShadows ==
    /\ [](\A p \in Paths :
            returned[p] # {}
            => entries[p].ok /\ returned[p] = {entries[p].data})
    /\ [][\A p \in Paths :
            returned[p] # {} => entries'[p] = entries[p]]_vars

\* C11 witness: a call was served the original content from the cache after
\* the file had been rewritten from outside with another, readable content.
CacheShadowsWitness ==
    \E t \in Threads :
        /\ pc[t] = "done" /\ call[t].ops = 0 /\ ret[t].err = "nil"
        /\ nmods > 0
        /\ FileOf(filename[t]).mode = "ok"
        /\ FileOf(filename[t]).data # ret[t].data
        /\ entries[filename[t]].data = ret[t].data

\* C13: there is no single-flight: every call that reaches Store inserts its
\* own data over whatever is stored (the last write wins), and two calls that
\* raced on a miss and read the same file content return the same content.
NoSingleFlight ==
    /\ [][\A t \in Threads :
            (pc[t] = "store" /\ pc'[t] = "done")
            => /\ entries'[filename[t]] = [ok |-> TRUE, data |-> data[t]]
               /\ stores'[filename[t]] = stores[filename[t]] + 1]_vars
    /\ [](\A t, u \in Threads :
            (/\ t # u /\ pc[t] = "done" /\ pc[u] = "done"
             /\ filename[t] = filename[u]
             /\ call[t].ops = 2 /\ call[u].ops = 2
             /\ ret[t].err = "nil" /\ ret[u].err = "nil"
             /\ call[t].snap = call[u].snap)
            => ret[t].data = ret[u].data)

\* C13 witness: two calls raced on a miss of an unchanged file; both opened
\* and read it and both stored, the second Store over the first.
NoSingleFlightWitness ==
    \E t, u \in Threads :
        /\ t # u /\ pc[t] = "done" /\ pc[u] = "done"
        /\ filename[t] = filename[u]
        /\ call[t].ops = 2 /\ call[u].ops = 2
        /\ opens[filename[t]] = 2 /\ stores[filename[t]] = 2
        /\ nmods = 0
        /\ ret[t] = ret[u] /\ ret[t].data = entries[filename[t]].data

\* C15: under serial access Store is called at most once for a path.
SerialOneInsertion == \A p \in Paths : stores[p] <= 1

\* C15 witness: a call failed, the next one read and stored the file, and a
\* third one was served from the cache: three calls, one insertion.
SerialOneInsertionWitness ==
    \E p \in Paths :
        /\ stores[p] = 1 /\ opens[p] = 2 /\ ncalls = 3
        /\ entries[p].ok
        /\ \E t \in Threads :
              pc[t] = "done" /\ filename[t] = p /\ call[t].ops = 0

\* C16: entries changes only in the Store step of a call that opened and
\* fully read the file of that very name, and the value stored is the whole
\* content the file had when that call read it.
StoredIsCompleteRead ==
    [][\A n \in AllNames :
         entries'[n] # entries[n]
         => \E t \in Threads :
               /\ pc[t] = "store" /\ pc'[t] = "done"
               /\ filename[t] = n
               /\ call[t].ops = 2 /\ call[t].srcOk
               /\ call[t].snap \in Contents
               /\ entries'[n] = [ok |-> TRUE, data |-> call[t].snap]]_vars

\* C16 witness: a read of a path failed partway, with some bytes read, and
\* the value stored under that path is a whole content.
StoredIsCompleteReadWitness ==
    \E u \in Threads :
        /\ pc[u] = "done" /\ ret[u].err = "ReadFailed" /\ data[u] # <<>>
        /\ entries[filename[u]].ok
        /\ entries[filename[u]].data \in Contents
        /\ \E n \in AllNames \ {filename[u]} :
              entries[n].ok /\ entries[n].data # entries[filename[u]].data

\* C17: every value stored in entries is a byte slice, and no call ever
\* panics in the type assertion of the hit path.
NoInvariantViolation ==
    /\ \A n \in AllNames : entries[n].ok => etype[n] = "[]byte"
    /\ \A t \in Threads : pc[t] # "panic"

\* C17 witness: a hit went through the type assertion and returned.
NoInvariantViolationWitness ==
    \E t \in Threads :
        /\ pc[t] = "done" /\ call[t].ops = 0 /\ ret[t].err = "nil"
        /\ entries[filename[t]].ok /\ etype[filename[t]] = "[]byte"
        /\ stores[filename[t]] > 0

\* C14: a call that is in progress is never blocked (its next step is
\* enabled whatever the other goroutines are doing), and under fair
\* scheduling every call that is in progress eventually returns.
EveryCallReturns ==
    /\ [](\A t \in Threads :
            pc[t] \in {"open", "read", "store"} => ENABLED Step(t))
    /\ \A t \in Threads :
          (pc[t] \in {"open", "read", "store"}) ~> (pc[t] = "done")

\* C14 witness: two calls that were in progress for the same path at the
\* same time have both returned, one with data and one with an error.
EveryCallReturnsWitness ==
    \E t, u \in Threads :
        /\ t # u /\ pc[t] = "done" /\ pc[u] = "done"
        /\ filename[t] = filename[u]
        /\ call[t].ops = 2 /\ call[u].ops >= 1
        /\ ret[t].err = "nil" /\ ret[u].err # "nil"
        /\ opens[filename[t]] = 2

\* C12: run gets to Create and Write only when the existence check found no
\* file or the force flag is set; when the check finds the file and the
\* flag is not set, run ends there with the files as they are; and no step
\* of run changes a file other than Create and Write on the target.
NoOverwrite ==
    /\ [](cmdPc \in {"create", "write"} => (~fileExists \/ overwriteFiles))
    /\ [][(cmdPc = "exists" /\ cmdPc' # "exists"
             /\ fileExists' /\ ~overwriteFiles)
          => (cmdPc' = "done" /\ cmdFs' = cmdFs /\ fd' = fd)]_vars
    /\ [][(cmdFs' # cmdFs /\ ntouch' = ntouch)
          => /\ cmdPc \in {"create", "write"}
             /\ ~fileExists \/ overwriteFiles
             /\ \A x \in Targets \ {target} : cmdFs'[x] = cmdFs[x]]_vars

\* C12 witness: run without the force flag ended on an existing file, which
\* still has the user's content.
NoOverwriteWitness ==
    /\ cmdPc = "done" /\ fileExists /\ ~overwriteFiles
    /\ cmdFs[target] = UserFile
    /\ ntouch = 0

\* C18: when the existence check reports the file and the force flag is not
\* set, run logs "<target> already exists", prints nothing, leaves the files
\* alone and returns the nil error of the check.
RefusalReportsSuccess ==
    /\ []((cmdPc = "done" /\ fileExists /\ ~overwriteFiles)
          => /\ result = "nil" /\ runErr = "nil"
             /\ logged = << <<"error", target, " already exists">> >>
             /\ stdout = <<>>
             /\ fd = 0)
    /\ [][(cmdPc = "exists" /\ fileExists' /\ ~overwriteFiles
             /\ cmdPc' # "exists")
          => (result' = "nil" /\ cmdFs' = cmdFs)]_vars

\* C18 witness: run on the default target, which exists, without the flag:
\* the message is logged and the result is nil.
RefusalReportsSuccessWitness ==
    /\ cmdPc = "done" /\ fileExists /\ ~overwriteFiles
    /\ args = <<>> /\ target = "script.js"
    /\ logged = << <<"error", "script.js", " already exists">> >>
    /\ result = "nil"
====
